---- MODULE Spec2Model ----
(***************************************************************************)
(* talk2ai: the voice session of MyDurableObject.fetch (the client socket, *)
(* the history, the transcript callback, the model stream, the PQueue of   *)
(* synthesis tasks and the DeepgramTTS callback slots) and the DeepgramSTT *)
(* link (connect, sendAudio, disconnect and the handlers registered on     *)
(* every connection it opens).                                             *)
(*                                                                         *)
(* One JavaScript turn (the code between two awaits, or one event handler) *)
(* is one action: the session is single-threaded, so nothing interleaves   *)
(* inside a turn.                                                          *)
(***************************************************************************)
EXTENDS Integers, Sequences, FiniteSets, TLC

\* ------------------------------------------------------------- bounds
\* transcript events delivered to the session callback (each may be final and
\* start a response)
MaxTranscripts == 2
\* sentence units the model streams produce in all
MaxUnits == 2
\* 100 ms sleeps of the polling loop before Date.now() - startTime reaches
\* the 10 s timeout (100 in the code, scaled down)
MaxPolls == 2
\* speech-to-text connection objects alive at once
MaxConns == 2
\* sendAudio calls
MaxSends == 2
\* transcript events and sentence units, in all, of a session that receives
\* clear commands
MaxEvents == 4
\* text fragments of one model stream
MaxFrags == 2
\* characters of one text fragment
MaxFragLen == 2
\* the hard length cap of a sentence unit, in characters
LengthCap == 3

ConnIds == 1..MaxConns
\* the null connection handle
NoConn == 0

VARIABLES
    \* ---- MyDurableObject.fetch: the session
    wsOpen,          \* the server side of the WebSocketPair is open
    msgHistory,      \* this.msgHistory
    outbox,          \* what ws.send delivered to the client, in order
    nTranscripts,    \* transcript callbacks run so far
    handlers,        \* the running transcript callbacks that started a response
    units,           \* the sentence units in queue.add order, each with its task
    queue,           \* PQueue: the tasks waiting, as unit numbers
    ttsAudioCb,      \* DeepgramTTS.onAudioCallback: 0 connect()'s, u the capture of task u
    ttsErrorCb,      \* DeepgramTTS.onErrorCallback, likewise
    ttsIsConnected,  \* DeepgramTTS.isConnected
    sinceClear,      \* what the history has seen since the last clear command
    sentenceBuffer,  \* bufferText at work on one model stream
    \* ---- DeepgramSTT: the transcription link
    connection,      \* this.connection: a connection or NoConn
    isConnected,     \* this.isConnected
    isReconnecting,  \* this.isReconnecting
    onTranscriptCallback, \* this.onTranscriptCallback is set
    conns,           \* every connection object client.listen.live returned
    \* ---- bookkeeping of the link's environment
    fetchPc,         \* where fetch() is: "start", "awaitSTT", "listening"
    nSends,          \* sendAudio calls made by the message listener
    sendLog,         \* what each sendAudio call found and did
    episode          \* the first remote close of the link and what followed it

sessionVars == <<wsOpen, msgHistory, outbox, nTranscripts, handlers,
                 units, queue, ttsAudioCb, ttsErrorCb, ttsIsConnected, sinceClear,
                 sentenceBuffer>>
linkVars == <<connection, isConnected, isReconnecting, onTranscriptCallback, conns,
              fetchPc, nSends, sendLog, episode>>
vars == <<wsOpen, msgHistory, outbox, nTranscripts, handlers,
          units, queue, ttsAudioCb, ttsErrorCb, ttsIsConnected, sinceClear,
          sentenceBuffer,
          connection, isConnected, isReconnecting, onTranscriptCallback, conns,
          fetchPc, nSends, sendLog, episode>>

\* ------------------------------------------------------ outbound messages
\* a transcript message that always says interim
TranscriptMsgInterim(t, isFinal) ==
    [type |-> "text", prefix |-> "", ref |-> t, interim |-> TRUE, audio |-> 0]

\* { type: 'text', text: transcript, interim: !isFinal }
TranscriptMsg(t, isFinal) ==
    [type |-> "text", prefix |-> "", ref |-> t, interim |-> ~isFinal, audio |-> 0]

\* { type: 'audio', text: sentence, audio: audioResult }: a is the unit whose
\* synthesize call produced the payload
AudioMsg(u, a) ==
    [type |-> "audio", prefix |-> "", ref |-> u, interim |-> FALSE, audio |-> a]

\* { type: 'text', text: `[TTS Error] ${sentence}` }
FallbackMsg(u) ==
    [type |-> "text", prefix |-> "[TTS Error] ", ref |-> u, interim |-> FALSE, audio |-> 0]

\* the outbound messages about sentence unit u (transcript messages carry prefix ""
\* and type text, and never audio)
IsUnitMsg(m, u) ==
    /\ m.ref = u
    /\ (m.type = "audio" \/ m.prefix = "[TTS Error] ")

UnitMsgs(u) == SelectSeq(outbox, LAMBDA m: IsUnitMsg(m, u))

\* the positions of outbox that hold a message about unit u
UnitPositions(u) == {i \in 1..Len(outbox): IsUnitMsg(outbox[i], u)}

\* ------------------------------------------------------------ the history
\* { role: 'user', content: transcript }, for transcript event t
UserTurn(t) == [role |-> "user", content |-> t]

\* { role: 'assistant', content: sentence }, for sentence unit u
AssistantTurn(u) == [role |-> "assistant", content |-> u]

\* a push that loses the turn
DropTurn(history, turn) == history

\* a push that puts the turn in front
PushFront(history, turn) == <<turn>> \o history

\* this.msgHistory.push(turn)
PushTurn(history, turn) == Append(history, turn)

\* a clear command that leaves the history as it is
KeepHistory(history) == history

\* this.msgHistory.length = 0
ClearHistory(history) == <<>>

\* sinceClear: "none" (no clear command since the last final transcript was
\* processed), "fresh" (a clear command came and nothing was pushed since),
\* "stale" (a clear command came and a sentence of a response that was
\* streaming was pushed since)
SinceClearOnSentence == IF sinceClear = "fresh" THEN "stale" ELSE sinceClear

\* ------------------------------------------------ DeepgramSTT: the link
\* a slot of conns that holds no connection object
FreeConn ==
    [sock |-> "free", resolved |-> FALSE, timeout |-> FALSE, reconnect |-> FALSE,
     origin |-> "none", finished |-> 0]

\* the connection object connect() creates, with the 5 s timer armed and the
\* connectionPromise unresolved; origin says who awaits the promise ("fetch",
\* "close": the Close handler's timer, "send": sendAudio's then(); "none" once
\* the promise is settled and its awaiter has run)
NewConn(origin) ==
    [sock |-> "connecting", resolved |-> FALSE, timeout |-> TRUE, reconnect |-> FALSE,
     origin |-> origin, finished |-> 0]

\* the fields of DeepgramSTT as one record, with the log of its sendAudio calls
Link ==
    [connection |-> connection, isConnected |-> isConnected,
     isReconnecting |-> isReconnecting, onTranscriptCallback |-> onTranscriptCallback,
     conns |-> conns, sendLog |-> sendLog]

\* a connection object nothing can reach any more: its socket is closed, its
\* promise is settled, no timer of it is pending and this.connection is another
Collectable(L, c) ==
    /\ L.conns[c].sock = "closed"
    /\ L.conns[c].resolved
    /\ ~L.conns[c].timeout
    /\ ~L.conns[c].reconnect
    /\ L.connection # c

\* garbage collection of the connection objects
Collect(L) ==
    [L EXCEPT !.conns = [c \in ConnIds |->
        IF Collectable(L, c) THEN FreeConn ELSE L.conns[c]]]

SetLink(L) ==
    /\ connection' = Collect(L).connection
    /\ isConnected' = Collect(L).isConnected
    /\ isReconnecting' = Collect(L).isReconnecting
    /\ onTranscriptCallback' = Collect(L).onTranscriptCallback
    /\ conns' = Collect(L).conns
    /\ sendLog' = Collect(L).sendLog

FreeIds(L) == {c \in ConnIds: L.conns[c].sock = "free"}

\* connect() up to `return await connectionPromise`
DoConnect(L, origin) ==
    LET c == CHOOSE x \in FreeIds(L): \A y \in FreeIds(L): x <= y
    IN [L EXCEPT !.onTranscriptCallback = TRUE,
                 !.connection = c,
                 !.conns[c] = NewConn(origin)]

\* sendAudio(): the test `!this.isConnected || !this.connection`
NotEstablished(L) == ~L.isConnected \/ L.connection = NoConn

\* sendAudio(): whether this call starts a reconnect
SendReconnects(L) ==
    /\ NotEstablished(L)
    /\ L.onTranscriptCallback
    /\ ~L.isReconnecting

\* one line of sendLog: what a sendAudio call found and did. retry: the call is
\* the one sendAudio's then() makes; connected: it took the connection.send
\* branch, and sock is then the state of the socket it sent to; reconnect: it
\* called connect(); reconnected: it was made in episode "reconnected"
SendEntry(L, retry, ep) ==
    [retry |-> retry,
     connected |-> ~NotEstablished(L),
     sock |-> IF NotEstablished(L) THEN "none" ELSE L.conns[L.connection].sock,
     reconnect |-> SendReconnects(L),
     reconnected |-> ep = "reconnected"]

\* sendAudio(audioBuffer)
DoSendAudio(L, retry, ep) ==
    LET logged == [L EXCEPT !.sendLog = @ \cup {SendEntry(L, retry, ep)}]
    IN IF NotEstablished(L)
       THEN IF L.onTranscriptCallback /\ ~L.isReconnecting
            THEN DoConnect([logged EXCEPT !.isReconnecting = TRUE], "send")
            ELSE logged
       ELSE logged

\* sendAudio() can run: the connection object it may create has a free slot
CanSendAudio(L) == SendReconnects(L) => FreeIds(L) # {}

\* a disconnect() that keeps the connection handle
DoDisconnectKeepsHandle(L) ==
    IF L.connection # NoConn
    THEN [L EXCEPT !.conns[L.connection].finished = @ + 1,
                   !.isConnected = FALSE]
    ELSE [L EXCEPT !.isConnected = FALSE]

\* disconnect(): finished counts the finish() calls made on a connection; the
\* handle and the flag are reset whether finish() throws or not
DoDisconnect(L) ==
    IF L.connection # NoConn
    THEN [L EXCEPT !.conns[L.connection].finished = @ + 1,
                   !.connection = NoConn,
                   !.isConnected = FALSE]
    ELSE [L EXCEPT !.isConnected = FALSE]

\* disconnect(): how the call ends for its caller: an exception of finish() is
\* caught and logged by the catch block around it, and no other statement throws
DisconnectOutcome(L, finishThrows) ==
    IF L.connection # NoConn /\ finishThrows THEN "logged" ELSE "returned"

\* ------------------------------------------- the first remote close (episode)
\* "none": no connection has closed yet; "closed": the connection the link was
\* connected through, the only connection object there is, was closed by the
\* remote side, and nothing else has happened since but the link's own timers;
\* "reconnected": an Open event then marked the link connected again; "void":
\* anything else (a second close, an error or timeout, a caller's call while the
\* link was down, a close of a link that was not connected through one connection)
CleanConnected(c) ==
    /\ isConnected
    /\ connection = c
    /\ conns[c].sock = "open"
    /\ conns[c].finished = 0
    /\ ~isReconnecting
    /\ \A d \in ConnIds \ {c}: conns[d] = FreeConn

EpisodeOnClose(c) ==
    IF episode = "none" /\ CleanConnected(c) THEN "closed" ELSE "void"

EpisodeOnFault == IF episode \in {"closed", "reconnected"} THEN "void" ELSE episode

EpisodeOnOpen(c) ==
    IF episode = "closed" /\ ~conns[c].resolved THEN "reconnected" ELSE episode

EpisodeOnSend == IF episode = "closed" THEN "void" ELSE episode

\* --------------------------------------------- DeepgramSTT: event handlers
\* connect(): what `return await connectionPromise` and the catch block return,
\* by whether the promise was resolved (by the Open handler) or rejected
ConnectResult(opened) == opened

\* connect(): the catch block calls onErrorCallback when the promise was rejected
ConnectReports(opened) == ~opened

\* a then() that clears isReconnecting only when connect() returned true
AfterConnectKeepsFlag(L, c, connected, ep) ==
    IF L.conns[c].origin = "send" /\ connected
    THEN DoSendAudio([L EXCEPT !.isReconnecting = FALSE], TRUE, ep)
    ELSE L

\* what runs after `await connectionPromise` settles, by who called connect():
\* sendAudio's then() clears isReconnecting and, connected, calls sendAudio again
AfterConnect(L, c, connected, ep) ==
    IF L.conns[c].origin = "send"
    THEN IF connected
         THEN DoSendAudio([L EXCEPT !.isReconnecting = FALSE], TRUE, ep)
         ELSE [L EXCEPT !.isReconnecting = FALSE]
    ELSE L

\* fetch() goes on to register the socket listeners once its connect() returned
FetchAfterConnect(c) ==
    IF conns[c].origin = "fetch" /\ ~conns[c].resolved THEN "listening" ELSE fetchPc

\* an Open handler that marks the link connected whenever it runs
OnOpenUnguarded(L, c, ep) ==
    [L EXCEPT !.conns[c].sock = "open",
              !.conns[c].resolved = TRUE,
              !.conns[c].timeout = FALSE,
              !.isConnected = TRUE]

\* the Open handler: the first settlement of the promise marks the link connected
OnOpen(L, c, ep) ==
    LET opened == [L EXCEPT !.conns[c].sock = "open"]
    IN IF L.conns[c].resolved
       THEN opened
       ELSE LET after == AfterConnect([opened EXCEPT !.conns[c].resolved = TRUE,
                                                     !.conns[c].timeout = FALSE,
                                                     !.isConnected = TRUE],
                                      c, ConnectResult(TRUE), ep)
            IN [after EXCEPT !.conns[c].origin = "none"]

\* the two Error handlers, and the 5 s timer: the first settlement rejects the
\* promise, connect() reports to onErrorCallback and returns false
OnFailure(L, c) ==
    IF L.conns[c].resolved
    THEN L
    ELSE LET after == AfterConnect([L EXCEPT !.conns[c].resolved = TRUE,
                                             !.conns[c].timeout = FALSE],
                                   c, ConnectResult(FALSE), "void")
         IN [after EXCEPT !.conns[c].origin = "none"]

\* a Close handler that sets no timer
OnCloseNoTimer(L, c) ==
    [L EXCEPT !.conns[c].sock = "closed",
              !.isConnected = FALSE]

\* the Close handler: isConnected = false and the 100 ms reconnect timer
OnClose(L, c) ==
    [L EXCEPT !.conns[c].sock = "closed",
              !.conns[c].reconnect = TRUE,
              !.isConnected = FALSE]

\* the callback of the Close handler's timer: connect() again with the last callbacks
OnReconnectTimer(L, c) ==
    LET fired == [L EXCEPT !.conns[c].reconnect = FALSE]
    IN IF L.onTranscriptCallback THEN DoConnect(fired, "close") ELSE fired

\* the retried sendAudio of an opening connection finds a slot when it needs one
OpenHasSlot(c) ==
    (conns[c].origin = "send" /\ ~conns[c].resolved /\ connection = NoConn)
        => FreeIds(Link) # {}

ConnOpen(c) ==
    /\ conns[c].sock = "connecting"
    /\ OpenHasSlot(c)
    /\ SetLink(OnOpen(Link, c, EpisodeOnOpen(c)))
    /\ fetchPc' = FetchAfterConnect(c)
    /\ episode' = EpisodeOnOpen(c)
    /\ UNCHANGED <<sessionVars, nSends>>

ConnError(c) ==
    /\ conns[c].sock \in {"connecting", "open"}
    /\ SetLink(OnFailure(Link, c))
    /\ fetchPc' = FetchAfterConnect(c)
    /\ episode' = EpisodeOnFault
    /\ UNCHANGED <<sessionVars, nSends>>

ConnTimeout(c) ==
    /\ conns[c].timeout
    /\ SetLink(OnFailure(Link, c))
    /\ fetchPc' = FetchAfterConnect(c)
    /\ episode' = EpisodeOnFault
    /\ UNCHANGED <<sessionVars, nSends>>

ConnClose(c) ==
    /\ conns[c].sock \in {"connecting", "open"}
    /\ SetLink(OnClose(Link, c))
    /\ episode' = EpisodeOnClose(c)
    /\ UNCHANGED <<sessionVars, nSends, fetchPc>>

ReconnectTimer(c) ==
    /\ conns[c].reconnect
    /\ onTranscriptCallback => FreeIds(Link) # {}
    /\ SetLink(OnReconnectTimer(Link, c))
    /\ UNCHANGED <<sessionVars, nSends, fetchPc, episode>>

\* fetch(): `await this.deepgramSTT.connect(...)`
FetchConnect ==
    /\ fetchPc = "start"
    /\ fetchPc' = "awaitSTT"
    /\ SetLink(DoConnect(Link, "fetch"))
    /\ UNCHANGED <<sessionVars, nSends, episode>>

\* ------------------------------------------------- PQueue and its tasks
\* a queue that lets two tasks run at a time
TwoAtATime == 1 + 1

\* new PQueue({ concurrency: 1 })
PQueueConcurrency == 1

\* a unit as queue.add receives it, and the locals of its task. h: the handler
\* that produced it; afterClose: the client socket was closed by then; pc:
\* "queued" (waiting in PQueue), "awaitSynthesize", "polling", "done"; request:
\* the client.speak.request synthesize awaits ("none", "pending", "hung",
\* "audio", "error", "noaudio"); result: the task's promise; waited: a task was
\* running when it was added; closedSends: the ws.send calls the task made on
\* the closed socket
NewUnit(h) ==
    [h |-> h, afterClose |-> ~wsOpen, waited |-> FALSE,
     pc |-> "queued", request |-> "none", polls |-> 0,
     audioResult |-> 0, errorResult |-> FALSE,
     originalCallback |-> 0, originalErrorCallback |-> 0,
     result |-> "none", closedSends |-> 0]

\* the queue, its tasks and the two callback slots of DeepgramTTS as one record
TtsQueue ==
    [units |-> units, queue |-> queue, audioCb |-> ttsAudioCb, errorCb |-> ttsErrorCb]

SetTtsQueue(Q) ==
    /\ units' = Q.units
    /\ queue' = Q.queue
    /\ ttsAudioCb' = Q.audioCb
    /\ ttsErrorCb' = Q.errorCb

\* the tasks PQueue has started and that have not ended
Running(us) == {u \in DOMAIN us: us[u].pc \in {"awaitSynthesize", "polling"}}

\* PQueue.add: the task waits behind the ones added before it
Enqueue(q, u) == Append(q, u)

\* PQueue: the task that runs next
Dequeue(q) == Head(q)

\* a task that reads the two slots only after it has put its own callbacks there
StartTaskSavesLate(Q, u) ==
    [Q EXCEPT !.units[u].pc = "awaitSynthesize",
              !.units[u].request = "pending",
              !.units[u].originalCallback = u,
              !.units[u].originalErrorCallback = u,
              !.audioCb = u,
              !.errorCb = u]

\* the task of unit u run up to `await this.client.speak.request(...)` inside
\* synthesize: it keeps the callbacks it finds in the two slots and puts its own
StartTask(Q, u) ==
    [Q EXCEPT !.units[u].pc = "awaitSynthesize",
              !.units[u].request = "pending",
              !.units[u].originalCallback = Q.audioCb,
              !.units[u].originalErrorCallback = Q.errorCb,
              !.audioCb = u,
              !.errorCb = u]

\* PQueue: start the next waiting task when fewer than concurrency are running
TryToStartAnother(Q) ==
    IF Q.queue # <<>> /\ Cardinality(Running(Q.units)) < PQueueConcurrency
    THEN StartTask([Q EXCEPT !.queue = Tail(Q.queue)], Dequeue(Q.queue))
    ELSE Q

\* queue.add(task)
QueueAdd(Q, u) ==
    TryToStartAnother([Q EXCEPT !.queue = Enqueue(Q.queue, u),
                                !.units[u].waited = Running(Q.units) # {}])

\* the ws.send of the try block once the wait is over: none when it throws
\* errorResult or the timeout error first
TrySends(u, audioResult, errorResult) ==
    IF errorResult THEN <<>>
    ELSE IF audioResult = 0 THEN <<>>
    ELSE <<AudioMsg(u, audioResult)>>

\* a catch block that only logs
CatchOnlyLogs(u) == <<>>

\* the ws.send of the catch block
CatchSends(u) == <<FallbackMsg(u)>>

\* a fallback sent after the try block whether it threw or not
FallbackAlways(u, audioResult, errorResult, open) ==
    TrySends(u, audioResult, errorResult) \o CatchSends(u)

\* every ws.send the task calls, in order: the catch block runs when the try
\* block threw, which a send on a closed socket does too
TaskSends(u, audioResult, errorResult, open) ==
    IF TrySends(u, audioResult, errorResult) = <<>> \/ ~open
    THEN TrySends(u, audioResult, errorResult) \o CatchSends(u)
    ELSE TrySends(u, audioResult, errorResult)

\* the end of task u, from `// Restore original callbacks` on, and what PQueue
\* and the awaiting handler do next: the sends reach the client when the socket
\* is open and throw when it is closed (the throw of the catch block rejects the
\* task, and with it queue.add, the bufferText callback and the handler); PQueue
\* starts the next waiting task in the same turn
FinishTask(Q, u) ==
    LET sends == TaskSends(u, Q.units[u].audioResult, Q.units[u].errorResult, wsOpen)
        ended == [Q EXCEPT !.units[u].pc = "done",
                           !.units[u].closedSends = IF wsOpen THEN 0 ELSE Len(sends),
                           !.units[u].result = IF wsOpen THEN "fulfilled" ELSE "rejected",
                           !.audioCb = Q.units[u].originalCallback,
                           !.errorCb = Q.units[u].originalErrorCallback]
    IN /\ outbox' = IF wsOpen THEN outbox \o sends ELSE outbox
       /\ handlers' = [handlers EXCEPT ![units[u].h].pc =
                          IF wsOpen THEN "reading" ELSE "failed"]
       /\ SetTtsQueue(TryToStartAnother(ended))

\* synthesize, once client.speak.request has settled: with audio it calls the
\* callback in the audio slot, on a rejection the one in the error slot; with no
\* audio processed it calls neither. A slot holds connect()'s callback, which
\* does nothing, or the capture of a task, which sets that task's local
SynthesizeReturns(Q, u, outcome) ==
    LET settled == [Q EXCEPT !.units[u].request = outcome]
    IN IF outcome = "audio" /\ Q.audioCb # 0
       THEN [settled EXCEPT !.units[Q.audioCb].audioResult = u]
       ELSE IF outcome = "error" /\ Q.errorCb # 0
       THEN [settled EXCEPT !.units[Q.errorCb].errorResult = TRUE]
       ELSE settled

\* the test of the polling loop before the first sleep (no time has passed)
HasResult(Q, u) == Q.units[u].audioResult # 0 \/ Q.units[u].errorResult

\* client.speak.request of task u settles and synthesize returns; the task goes
\* on in the same turn: with a result it skips the loop, without it sleeps
RequestResolves(u, outcome) ==
    /\ units[u].pc = "awaitSynthesize"
    /\ units[u].request = "pending"
    /\ LET Q == SynthesizeReturns(TtsQueue, u, outcome)
       IN IF HasResult(Q, u)
          THEN FinishTask(Q, u)
          ELSE /\ SetTtsQueue([Q EXCEPT !.units[u].pc = "polling"])
               /\ UNCHANGED <<outbox, handlers>>
    /\ UNCHANGED <<sentenceBuffer, wsOpen, msgHistory, nTranscripts, ttsIsConnected, sinceClear, linkVars>>

\* client.speak.request of task u never settles:
\* `await this.deepgramTTS.synthesize(sentence)` never returns
RequestHangs(u) ==
    /\ units[u].pc = "awaitSynthesize"
    /\ units[u].request = "pending"
    /\ units' = [units EXCEPT ![u].request = "hung"]
    /\ UNCHANGED <<sentenceBuffer, wsOpen, msgHistory, outbox, nTranscripts, handlers,
                   queue, ttsAudioCb, ttsErrorCb, ttsIsConnected, sinceClear, linkVars>>

\* one 100 ms sleep of the polling loop of task u ends: the loop is left with a
\* result, or after MaxPolls sleeps, when Date.now() - startTime has reached the
\* timeout
PollTick(u) ==
    /\ units[u].pc = "polling"
    /\ IF HasResult(TtsQueue, u) \/ units[u].polls + 1 >= MaxPolls
       THEN FinishTask(TtsQueue, u)
       ELSE /\ units' = [units EXCEPT ![u].polls = @ + 1]
            /\ UNCHANGED <<outbox, handlers, queue, ttsAudioCb, ttsErrorCb>>
    /\ UNCHANGED <<sentenceBuffer, wsOpen, msgHistory, nTranscripts, ttsIsConnected, sinceClear, linkVars>>

\* ------------------------------------------- the transcript callback
\* bufferText hands the next sentence to its callback: the assistant turn is
\* pushed and the task is added to the queue, which starts it at once when idle
StreamSentence(h) ==
    /\ handlers[h].pc = "reading"
    /\ Len(units) < MaxUnits
    /\ LET u == Len(units) + 1
       IN /\ msgHistory' = PushTurn(msgHistory, AssistantTurn(u))
          /\ sinceClear' = SinceClearOnSentence
          /\ handlers' = [handlers EXCEPT ![h].pc = "awaitQueue"]
          /\ SetTtsQueue(QueueAdd([TtsQueue EXCEPT !.units = Append(units, NewUnit(h))], u))
    /\ UNCHANGED <<sentenceBuffer, wsOpen, outbox, nTranscripts, ttsIsConnected, linkVars>>

\* the model stream ends and bufferText returns
StreamEnd(h) ==
    /\ handlers[h].pc = "reading"
    /\ handlers' = [handlers EXCEPT ![h].pc = "done"]
    /\ UNCHANGED <<sentenceBuffer, wsOpen, msgHistory, outbox, nTranscripts, units, queue,
                   ttsAudioCb, ttsErrorCb, ttsIsConnected, sinceClear, linkVars>>

\* the model stream fails: bufferText rejects and with it the callback's promise
StreamFail(h) ==
    /\ handlers[h].pc = "reading"
    /\ handlers' = [handlers EXCEPT ![h].pc = "failed"]
    /\ UNCHANGED <<sentenceBuffer, wsOpen, msgHistory, outbox, nTranscripts, units, queue,
                   ttsAudioCb, ttsErrorCb, ttsIsConnected, sinceClear, linkVars>>

\* a callback that starts a response to every transcript with text in it
StartsOnAnyText(isFinal, blank) == ~blank

\* the transcript callback: `if (isFinal && transcript.trim())`
StartsResponse(isFinal, blank) == isFinal /\ ~blank

\* a callback that abandons the responses under way when it starts a new one
StartHandlerCancelling(hs, t) ==
    [h \in 1..Len(hs) |-> [hs[h] EXCEPT !.pc = "done"]]
        \o <<[pc |-> "reading", transcript |-> t, busy |-> Running(units) # {}]>>

\* the callback calls streamText and awaits bufferText: its response is under
\* way next to those of the callbacks that started before it
StartHandler(hs, t) ==
    Append(hs, [pc |-> "reading", transcript |-> t, busy |-> Running(units) # {}])

\* a Transcript event of an open connection with a non-empty transcript: the
\* link calls onTranscriptCallback, which runs to its first await (on a closed
\* socket its ws.send throws and it ends there). blank: the transcript is white
\* space only. A handler keeps the number of its transcript and whether a
\* synthesis task was running when it started (busy)
Transcript(isFinal, blank) ==
    /\ nTranscripts < MaxTranscripts
    /\ onTranscriptCallback
    /\ \E c \in ConnIds: conns[c].sock = "open"
    /\ nTranscripts' = nTranscripts + 1
    /\ IF wsOpen
       THEN /\ outbox' = Append(outbox, TranscriptMsg(nTranscripts + 1, isFinal))
            /\ IF StartsResponse(isFinal, blank)
               THEN /\ msgHistory' = PushTurn(msgHistory, UserTurn(nTranscripts + 1))
                    /\ sinceClear' = "none"
                    /\ handlers' = StartHandler(handlers, nTranscripts + 1)
               ELSE UNCHANGED <<msgHistory, handlers, sinceClear>>
       ELSE UNCHANGED <<outbox, msgHistory, handlers, sinceClear>>
    /\ UNCHANGED <<sentenceBuffer, wsOpen, units, queue, ttsAudioCb, ttsErrorCb,
                   ttsIsConnected, linkVars>>

\* ------------------------------------------------- the socket listeners
\* a message listener whose clear command also empties the queue
WsMessageEmptiesQueue(kind) ==
    /\ wsOpen
    /\ fetchPc = "listening"
    /\ kind = "clear"
    /\ msgHistory' = ClearHistory(msgHistory)
    /\ sinceClear' = "fresh"
    /\ queue' = <<>>
    /\ UNCHANGED <<sentenceBuffer, wsOpen, outbox, nTranscripts, handlers, units,
                   ttsAudioCb, ttsErrorCb, ttsIsConnected, linkVars>>

\* ws 'message': a string is a command ("clear" empties the history, anything
\* else is ignored), a binary frame goes to sendAudio
WsMessage(kind) ==
    /\ wsOpen
    /\ fetchPc = "listening"
    /\ IF kind = "audio"
       THEN /\ nSends < MaxSends
            /\ CanSendAudio(Link)
            /\ nSends' = nSends + 1
            /\ SetLink(DoSendAudio(Link, FALSE, episode))
            /\ episode' = EpisodeOnSend
            /\ UNCHANGED <<msgHistory, sinceClear>>
       ELSE /\ msgHistory' = IF kind = "clear" THEN ClearHistory(msgHistory) ELSE msgHistory
            /\ sinceClear' = IF kind = "clear" THEN "fresh" ELSE sinceClear
            /\ UNCHANGED <<connection, isConnected, isReconnecting, onTranscriptCallback,
                           conns, nSends, sendLog, episode>>
    /\ UNCHANGED <<sentenceBuffer, wsOpen, outbox, nTranscripts, handlers, units, queue,
                   ttsAudioCb, ttsErrorCb, ttsIsConnected, fetchPc>>

\* ws 'close': both Deepgram objects are disconnected and the socket is closed
WsClose ==
    /\ wsOpen
    /\ fetchPc = "listening"
    /\ wsOpen' = FALSE
    /\ ttsIsConnected' = FALSE
    /\ SetLink(DoDisconnect(Link))
    /\ episode' = EpisodeOnFault
    /\ UNCHANGED <<sentenceBuffer, msgHistory, outbox, nTranscripts, handlers, units, queue,
                   ttsAudioCb, ttsErrorCb, sinceClear, fetchPc, nSends>>

\* --------------------------------------------------- the Sentence Buffer
\* text is a sequence of characters: a letter, a terminal punctuation mark, a
\* white space
Alphabet == {"a", ".", " "}
Terminators == {"."}
WhiteSpace == {" "}

Fragments == UNION {[1..n -> Alphabet]: n \in 0..MaxFragLen}
Streams == UNION {[1..n -> Fragments]: n \in 0..MaxFrags}

RECURSIVE Concat(_)
\* the texts of a sequence joined end to end
Concat(texts) == IF texts = <<>> THEN <<>> ELSE Head(texts) \o Concat(Tail(texts))

RECURSIVE TrimStart(_)
TrimStart(text) ==
    IF text # <<>> /\ Head(text) \in WhiteSpace THEN TrimStart(Tail(text)) ELSE text

RECURSIVE TrimEnd(_)
TrimEnd(text) ==
    IF text # <<>> /\ text[Len(text)] \in WhiteSpace
    THEN TrimEnd(SubSeq(text, 1, Len(text) - 1))
    ELSE text

\* a slice without its leading and trailing white space
Trim(text) == TrimEnd(TrimStart(text))

\* the text without any white space
Squeeze(text) == SelectSeq(text, LAMBDA ch: ch \notin WhiteSpace)

\* where the leading sentence of the residual ends: at its first terminal
\* punctuation mark, or at the length cap when none comes that early; 0 when
\* the residual holds no complete sentence yet
Boundary(residual) ==
    LET marks == {i \in 1..Len(residual): residual[i] \in Terminators}
        first == IF marks = {} THEN 0
                 ELSE CHOOSE i \in marks: \A j \in marks: i <= j
    IN IF first # 0 /\ first <= LengthCap THEN first
       ELSE IF Len(residual) >= LengthCap THEN LengthCap
       ELSE 0

\* the unit a slice is emitted as: the slice trimmed, and nothing when only
\* white space is left
Emit(slice) == IF Trim(slice) = <<>> THEN <<>> ELSE <<Trim(slice)>>

RECURSIVE Drain(_, _)
\* the leading sentences are extracted from the residual one after the other,
\* each emitted, and the remainder stays buffered
Drain(residual, emitted) ==
    LET b == Boundary(residual)
    IN IF b = 0
       THEN [residual |-> residual, emitted |-> emitted]
       ELSE Drain(SubSeq(residual, b + 1, Len(residual)),
                  emitted \o Emit(SubSeq(residual, 1, b)))

\* a completion that emits nothing
FlushNothing(residual) == <<>>

\* on stream completion a non-empty residual is flushed as a last unit
FlushUnits(residual) == IF residual = <<>> THEN <<>> ELSE Emit(residual)

\* the buffer before the first fragment of a stream: input is what the stream
\* will deliver, fed what it has delivered
NewBuffer(stream) ==
    [input |-> stream, fed |-> <<>>, residual |-> <<>>, emitted |-> <<>>, done |-> FALSE]

\* accumulate(fragment): the fragment is appended to the residual and every
\* complete sentence is emitted
BufferFragment ==
    /\ ~sentenceBuffer.done
    /\ sentenceBuffer.input # <<>>
    /\ LET fragment == Head(sentenceBuffer.input)
           drained == Drain(sentenceBuffer.residual \o fragment, sentenceBuffer.emitted)
       IN sentenceBuffer' = [sentenceBuffer EXCEPT !.input = Tail(@),
                                                   !.fed = @ \o fragment,
                                                   !.residual = drained.residual,
                                                   !.emitted = drained.emitted]
    /\ UNCHANGED <<wsOpen, msgHistory, outbox, nTranscripts, handlers, units, queue,
                   ttsAudioCb, ttsErrorCb, ttsIsConnected, sinceClear, linkVars>>

\* the stream completes
BufferFlush ==
    /\ ~sentenceBuffer.done
    /\ sentenceBuffer.input = <<>>
    /\ sentenceBuffer' = [sentenceBuffer EXCEPT
                             !.emitted = @ \o FlushUnits(sentenceBuffer.residual),
                             !.residual = <<>>,
                             !.done = TRUE]
    /\ UNCHANGED <<wsOpen, msgHistory, outbox, nTranscripts, handlers, units, queue,
                   ttsAudioCb, ttsErrorCb, ttsIsConnected, sinceClear, linkVars>>

\* --------------------------------------------------------- specifications
SessionInit ==
    /\ wsOpen = TRUE
    /\ msgHistory = <<>>
    /\ outbox = <<>>
    /\ nTranscripts = 0
    /\ handlers = <<>>
    /\ units = <<>>
    /\ queue = <<>>
    /\ ttsAudioCb = 0
    /\ ttsErrorCb = 0
    /\ ttsIsConnected = TRUE
    /\ sinceClear = "none"
    /\ sentenceBuffer = NewBuffer(<<>>)

\* the link as its constructor leaves it
LinkInit ==
    /\ connection = NoConn
    /\ isConnected = FALSE
    /\ isReconnecting = FALSE
    /\ onTranscriptCallback = FALSE
    /\ conns = [c \in ConnIds |-> FreeConn]
    /\ fetchPc = "start"
    /\ nSends = 0
    /\ sendLog = {}
    /\ episode = "none"

\* the link once fetch()'s connect() has returned true
LinkConnected ==
    /\ connection = 1
    /\ isConnected = TRUE
    /\ isReconnecting = FALSE
    /\ onTranscriptCallback = TRUE
    /\ conns = [c \in ConnIds |->
                  IF c = 1 THEN [NewConn("none") EXCEPT !.sock = "open",
                                                         !.resolved = TRUE,
                                                         !.timeout = FALSE]
                  ELSE FreeConn]
    /\ fetchPc = "listening"
    /\ nSends = 0
    /\ sendLog = {}
    /\ episode = "none"

\* the session over a link that connected and that the remote side leaves alone;
\* the audio frames, which such a link only forwards, are left to LinkSpec, and
\* the clear command, which empties a history no step of the session reads
\* back, to HistorySpec
Init == SessionInit /\ LinkConnected

Next ==
    \/ \E isFinal \in BOOLEAN, blank \in BOOLEAN: Transcript(isFinal, blank)
    \/ \E h \in 1..Len(handlers): StreamSentence(h)
    \/ \E h \in 1..Len(handlers): StreamEnd(h)
    \/ \E h \in 1..Len(handlers): StreamFail(h)
    \/ \E u \in 1..Len(units), outcome \in {"audio", "error", "noaudio"}:
          RequestResolves(u, outcome)
    \/ \E u \in 1..Len(units): RequestHangs(u)
    \/ \E u \in 1..Len(units): PollTick(u)
    \/ WsMessage("other")
    \/ WsClose

Spec == Init /\ [][Next]_vars

\* the session with the client messages of the given kinds, for as long as
\* transcript events and sentence units are fewer than MaxEvents in all
HistoryRoom == nTranscripts + Len(units) < MaxEvents

HistoryStep(kinds) ==
    \/ HistoryRoom /\ \E isFinal \in BOOLEAN, blank \in BOOLEAN: Transcript(isFinal, blank)
    \/ HistoryRoom /\ \E h \in 1..Len(handlers): StreamSentence(h)
    \/ \E h \in 1..Len(handlers): StreamEnd(h)
    \/ \E h \in 1..Len(handlers): StreamFail(h)
    \/ \E u \in 1..Len(units), outcome \in {"audio", "error", "noaudio"}:
          RequestResolves(u, outcome)
    \/ \E u \in 1..Len(units): RequestHangs(u)
    \/ \E u \in 1..Len(units): PollTick(u)
    \/ \E kind \in kinds: WsMessage(kind)
    \/ WsClose

\* the session with the client's commands
HistoryNext == HistoryStep({"clear", "other"})

HistorySpec == Init /\ [][HistoryNext]_vars

\* the session with the client's commands and audio frames
MessageNext == HistoryStep({"clear", "other", "audio"})

MessageSpec == Init /\ [][MessageNext]_vars

\* the link from its construction on, with the remote side free to open, fail
\* and close every connection; the session only forwards audio and closes
LinkSpecInit == SessionInit /\ LinkInit

LinkNext ==
    \/ FetchConnect
    \/ \E c \in ConnIds: ConnOpen(c)
    \/ \E c \in ConnIds: ConnError(c)
    \/ \E c \in ConnIds: ConnTimeout(c)
    \/ \E c \in ConnIds: ConnClose(c)
    \/ \E c \in ConnIds: ReconnectTimer(c)
    \/ WsMessage("audio")
    \/ WsClose

LinkSpec == LinkSpecInit /\ [][LinkNext]_vars

\* the timers of the link fire: the 100 ms reconnect timer of a Close handler
\* and the 5 s timer of a connect()
LinkTimers == \E c \in ConnIds: ReconnectTimer(c) \/ ConnTimeout(c)

FairLinkSpec == LinkSpec /\ WF_vars(LinkTimers)

\* the 5 s timer of the connect() that sendAudio called fires (sendAudio has at
\* most one such call under way)
SendTimer == \E c \in ConnIds: conns[c].origin = "send" /\ ConnTimeout(c)

SendFairLinkSpec == LinkSpec /\ WF_vars(SendTimer)

\* the Sentence Buffer fed one stream, every stream within the bounds
BufferInit ==
    /\ sentenceBuffer \in {NewBuffer(stream): stream \in Streams}
    /\ wsOpen = TRUE
    /\ msgHistory = <<>>
    /\ outbox = <<>>
    /\ nTranscripts = 0
    /\ handlers = <<>>
    /\ units = <<>>
    /\ queue = <<>>
    /\ ttsAudioCb = 0
    /\ ttsErrorCb = 0
    /\ ttsIsConnected = TRUE
    /\ sinceClear = "none"
    /\ LinkConnected

BufferNext ==
    \/ BufferFragment
    \/ BufferFlush

BufferSpec == BufferInit /\ [][BufferNext]_vars

\* ------------------------------------------------------------ the claims
Units == 1..Len(units)

\* C1: for two units submitted to the queue one before the other, the outbound
\* message of the first (audio or '[TTS Error]') is sent before the outbound
\* message of the second, whichever handlers submitted them
C1_SubmissionOrder ==
    \A u1, u2 \in Units:
        u1 < u2 =>
            /\ \A i \in UnitPositions(u1), j \in UnitPositions(u2): i < j
            /\ UnitPositions(u2) # {} => UnitPositions(u1) # {}

\* two handlers ran at once, the unit of the second waited in the queue behind
\* the running task of the first, and both have their message
C1_Witness ==
    \E u1, u2 \in Units:
        /\ u1 < u2
        /\ units[u1].h # units[u2].h
        /\ units[u2].waited
        /\ UnitPositions(u1) # {}
        /\ UnitPositions(u2) # {}

\* a step of the task of unit u: its request settles, or a sleep of its polling
\* loop ends
TaskStep(u) ==
    \/ \E outcome \in {"audio", "error", "noaudio"}: RequestResolves(u, outcome)
    \/ PollTick(u)

\* C2: a synthesis call that never resolves does not block the queue: the task
\* that made it can still go on (to its 10 s timeout, the '[TTS Error]' fallback
\* and the next unit)
C2_HungSynthesisTimesOut ==
    \A u \in Units: units[u].request = "hung" => ENABLED TaskStep(u)

\* C3: while the client connection is open every unit whose task has ended has
\* exactly one outbound message, an audio message when its synthesis produced
\* audio and the '[TTS Error]' text when it reported an error or returned no
\* audio; no unit ever has two
C3_ExactlyOneMessage ==
    \A u \in Units:
        /\ Len(UnitMsgs(u)) <= 1
        /\ (wsOpen /\ units[u].pc = "done") => units[u].result = "fulfilled"
        /\ units[u].result = "fulfilled" =>
              /\ Len(UnitMsgs(u)) = 1
              /\ \/ /\ units[u].request = "audio"
                    /\ UnitMsgs(u)[1].type = "audio"
                 \/ /\ units[u].request \in {"error", "noaudio"}
                    /\ UnitMsgs(u)[1] = FallbackMsg(u)

\* one unit ended with audio and another after a synthesis that returned no audio
C3_Witness ==
    /\ wsOpen
    /\ \E u, v \in Units:
        /\ units[u].request = "noaudio" /\ units[u].result = "fulfilled"
        /\ units[v].request = "audio" /\ units[v].result = "fulfilled"

\* C8: after the client connection closes no task passes its result to ws.send:
\* the results of the synthesis items still running are discarded
C8_ResultsDiscardedAfterClose ==
    \A u \in Units: units[u].closedSends = 0

\* C9: after the client connection closes the queue accepts no submission: a
\* unit a stream produces after the close never starts a synthesis call
C9_NoSynthesisAfterClose ==
    \A u \in Units: units[u].afterClose => units[u].request = "none"

\* C10: when the synthesis of a unit reports an error, the '[TTS Error]' text of
\* that unit is sent and no audio message for it, the session is left as it was
\* (socket open, link untouched, history untouched, the handler resumed) and the
\* next waiting unit is started
C10_ErrorFallback ==
    /\ [](\A u \in Units:
            units[u].request = "error" =>
                \A i \in UnitPositions(u): outbox[i] = FallbackMsg(u))
    /\ [][\A u \in Units:
            (wsOpen /\ units[u].request = "pending" /\ units'[u].request = "error") =>
                /\ outbox' = Append(outbox, FallbackMsg(u))
                /\ wsOpen'
                /\ ttsIsConnected' = ttsIsConnected
                /\ <<connection, isConnected, conns>>' = <<connection, isConnected, conns>>
                /\ msgHistory' = msgHistory
                /\ handlers'[units[u].h].pc = "reading"
                /\ queue # <<>> =>
                      /\ units'[Head(queue)].request = "pending"
                      /\ queue' = Tail(queue)]_vars

\* the synthesis of a unit reported an error and a unit submitted after it was
\* synthesized and delivered as audio
C10_Witness ==
    /\ wsOpen
    /\ \E u, v \in Units:
        /\ u < v
        /\ units[u].request = "error"
        /\ UnitMsgs(u) = <<FallbackMsg(u)>>
        /\ units[v].request = "audio"
        /\ UnitMsgs(v) = <<AudioMsg(v, v)>>

\* C4: after disconnect() the link is Disconnected and stays so: no automatic
\* reconnect gives it a connection again and isConnected does not become true
\* again (the session makes no call on the link after its close listener)
C4_DisconnectIsTerminal ==
    ~wsOpen => (connection = NoConn /\ ~isConnected)

\* C5: automatic reconnection is bounded: in every execution the reconnects the
\* Close handler starts come to an end
C5_ReconnectsEnd ==
    <>[][~(\E c \in ConnIds: ReconnectTimer(c))]_vars

C7_EverySendReconnects ==
    \A e \in sendLog: ~e.connected => e.reconnect

\* the tasks the queue has started: their synthesize call was made
Started == {u \in Units: units[u].pc # "queued"}

\* C11: at most one synthesize call of the queue is in flight at a time, and the
\* call of a unit is made only after the task of every unit submitted before it
\* has ended (its audio or fallback message sent)
C11_OneSynthesisAtATime ==
    /\ Cardinality({u \in Units: units[u].request \in {"pending", "hung"}}) <= 1
    /\ Cardinality(Running(units)) <= 1
    /\ \A u \in Started: \A v \in Units: v < u => units[v].pc = "done"
    /\ \A u \in Started: \A v \in Units:
          (v < u /\ wsOpen) => UnitPositions(v) # {}

\* a unit waited in the queue while the task of another ran, and its own
\* synthesize call was made once that task had ended
C11_Witness ==
    \E u, v \in Units:
        /\ v < u
        /\ units[u].waited
        /\ units[u].request = "pending"
        /\ units[v].pc = "done"
        /\ UnitPositions(v) # {}

\* C12: an interim transcript event appends no Turn to the history and starts
\* no inference; a response is started, and a user Turn appended, only by a
\* final event
C12_InterimOnlyAdvisory ==
    [][/\ (wsOpen /\ nTranscripts' # nTranscripts /\ outbox'[Len(outbox')].interim) =>
             (msgHistory' = msgHistory /\ handlers' = handlers)
       /\ handlers' # handlers /\ Len(handlers') > Len(handlers) =>
             /\ nTranscripts' = nTranscripts + 1
             /\ ~outbox'[Len(outbox')].interim
             /\ msgHistory' = Append(msgHistory, UserTurn(nTranscripts'))
       /\ (Len(msgHistory') > 0 /\ msgHistory' # msgHistory
             /\ msgHistory'[Len(msgHistory')].role = "user") =>
             /\ nTranscripts' = nTranscripts + 1
             /\ ~outbox'[Len(outbox')].interim]_vars

\* an interim transcript was reported to the client while a response to a final
\* one was under way, and it is neither in the history nor has it a handler
C12_Witness ==
    \E i \in 1..Len(outbox):
        /\ outbox[i].type = "text" /\ outbox[i].interim
        /\ \E h \in 1..Len(handlers): handlers[h].transcript < outbox[i].ref
        /\ \A h \in 1..Len(handlers): handlers[h].transcript # outbox[i].ref
        /\ \A j \in 1..Len(msgHistory):
              msgHistory[j].role = "user" => msgHistory[j].content # outbox[i].ref

\* the transcript messages sent to the client, in order
TranscriptMsgs == SelectSeq(outbox, LAMBDA m: m.type = "text" /\ m.prefix = "")

\* C13: every transcript event produces one text message with interim = !isFinal,
\* the messages are sent in the order of the events, and while the socket is
\* open the next event is processed at once, whatever streams and synthesis
\* tasks (failing or hung ones too) are under way
C13_TranscriptsNeverBlocked ==
    /\ \A i \in 1..Len(TranscriptMsgs): TranscriptMsgs[i].ref = i
    /\ wsOpen => Len(TranscriptMsgs) = nTranscripts
    /\ \A h \in 1..Len(handlers):
          /\ TranscriptMsgs[handlers[h].transcript].type = "text"
          /\ ~TranscriptMsgs[handlers[h].transcript].interim
    /\ (wsOpen /\ nTranscripts < MaxTranscripts) =>
          ENABLED (\E isFinal \in BOOLEAN, blank \in BOOLEAN: Transcript(isFinal, blank))

\* the synthesis of the first sentence never returns, and the final transcript
\* that arrived while it was under way was reported to the client and answered
C13_Witness ==
    /\ wsOpen
    /\ units # <<>>
    /\ units[1].request = "hung"
    /\ \E h \in 1..Len(handlers):
          /\ handlers[h].busy
          /\ handlers[h].transcript > handlers[units[1].h].transcript
          /\ ~TranscriptMsgs[handlers[h].transcript].interim

\* a step in which a final transcript is processed: a response is started
StartsHandler == Len(handlers') > Len(handlers)

ClearStep == sinceClear # "fresh" /\ sinceClear' = "fresh"

\* C15: the clear command changes only the history: the waiting units, the
\* synthesis call in flight, the callback slots, the messages sent and the
\* running responses stay as they are, and the units submitted before it still
\* get their messages in submission order, one each
C15_ClearOnlyTouchesHistory ==
    /\ [][ClearStep =>
            /\ msgHistory' = <<>>
            /\ UNCHANGED <<wsOpen, outbox, nTranscripts, handlers, units, queue,
                           ttsAudioCb, ttsErrorCb, ttsIsConnected, linkVars>>]_vars
    /\ [](\A u1, u2 \in Units:
            u1 < u2 =>
                /\ \A i \in UnitPositions(u1), j \in UnitPositions(u2): i < j
                /\ UnitPositions(u2) # {} => UnitPositions(u1) # {})
    /\ [](\A u \in Units:
            (wsOpen /\ units[u].pc = "done") => Len(UnitMsgs(u)) = 1)

\* the history was cleared while the synthesis call of one unit was in flight
\* and another unit waited in the queue, and both are still there
C15_Witness ==
    /\ sinceClear = "fresh"
    /\ queue # <<>>
    /\ \E u \in Units: units[u].request = "pending"

\* the places of the history that hold the assistant Turn of unit u
TurnPositions(u) == {i \in 1..Len(msgHistory): msgHistory[i] = AssistantTurn(u)}

\* C16: when a sentence unit is submitted to the queue its assistant Turn is
\* already the last Turn of the history, and nothing that happens to its
\* synthesis (an error, a timeout) removes or alters that Turn: with no clear
\* command the Turn of every unit stays in the history, once
C16_TurnBeforeSynthesis ==
    /\ [][Len(units') > Len(units) =>
            /\ msgHistory' = Append(msgHistory, AssistantTurn(Len(units')))
            /\ units'[Len(units')].request \in {"none", "pending"}]_vars
    /\ [][Len(units') = Len(units) /\ units' # units => msgHistory' = msgHistory]_vars
    /\ [](\A u \in Units: Cardinality(TurnPositions(u)) = 1)

\* the synthesis of one unit reported an error, that of another timed out with
\* no audio, both got the fallback text, and their Turns are in the history
C16_Witness ==
    \E u, v \in Units:
        /\ units[u].request = "error" /\ UnitMsgs(u) = <<FallbackMsg(u)>>
        /\ units[v].request = "noaudio" /\ UnitMsgs(v) = <<FallbackMsg(v)>>
        /\ TurnPositions(u) # {}
        /\ TurnPositions(v) # {}

\* C17: the history changes in three ways only: the user Turn of a final
\* transcript is appended at its end, the assistant Turn of a new sentence unit
\* is appended at its end, or a clear command empties it; the Turns already in
\* it are never changed, reordered or removed one by one, and an audio frame or
\* another control message leaves it as it is
C17_HistoryAppendOrClear ==
    /\ [][msgHistory' # msgHistory =>
            \/ /\ StartsHandler
               /\ ~outbox'[Len(outbox')].interim
               /\ msgHistory' = Append(msgHistory, UserTurn(nTranscripts'))
            \/ /\ Len(units') > Len(units)
               /\ msgHistory' = Append(msgHistory, AssistantTurn(Len(units')))
            \/ /\ sinceClear' = "fresh"
               /\ msgHistory' = <<>>]_vars
    /\ [][nSends' # nSends => msgHistory' = msgHistory]_vars

\* a history that was cleared and then got the user Turn of a final transcript
\* and the assistant Turn of a sentence, in a session that also received audio
C17_Witness ==
    /\ nSends > 0
    /\ Len(handlers) >= 2
    /\ Len(msgHistory) = 2
    /\ msgHistory[1] = UserTurn(handlers[2].transcript)
    /\ msgHistory[2].role = "assistant"

\* C18: disconnect() is idempotent and never throws: called in any state of the
\* link it returns, also when finish() throws, with isConnected false and the
\* handle null; called again at once it changes nothing and finishes no
\* connection a second time
C18_DisconnectIdempotent ==
    /\ \A finishThrows \in BOOLEAN: DisconnectOutcome(Link, finishThrows) # "thrown"
    /\ DoDisconnect(Link).connection = NoConn
    /\ ~DoDisconnect(Link).isConnected
    /\ DoDisconnect(DoDisconnect(Link)) = DoDisconnect(Link)
    /\ \A c \in ConnIds: DoDisconnect(Link).conns[c].finished =
          conns[c].finished + (IF connection = c THEN 1 ELSE 0)
    /\ ~wsOpen => ~ttsIsConnected

\* the close listener called disconnect() on a link that was not connected and
\* held a connection still connecting: that connection was finished once and
\* the handle is null
C18_Witness ==
    /\ ~wsOpen
    /\ ~ttsIsConnected
    /\ connection = NoConn
    /\ ~isConnected
    /\ \E c \in ConnIds: conns[c].finished = 1 /\ conns[c].sock = "connecting"

\* the connect() call of connection c fails in this step: its promise, not yet
\* settled, is rejected by the 5 s timer (or by an Error event, which does the
\* same), with no Open event received
ConnectFails(c) ==
    /\ conns[c].timeout
    /\ ~conns[c].resolved
    /\ conns'[c].resolved
    /\ conns'[c].sock # "open"

\* an Open event of connection c arrives in this step after its connect() failed
LateOpen(c) ==
    /\ conns[c].resolved
    /\ conns[c].sock = "connecting"
    /\ conns'[c].sock = "open"

\* C19: when the 5 s timer of a connect() fires with no Open event received,
\* the call reports to the error callback and returns false, isConnected stays
\* as it was, no connection is created by that call, and whoever awaited the
\* call goes on (fetch registers its listeners, sendAudio's then() clears
\* isReconnecting and does not retry); an Open event that arrives later does
\* not mark the link connected
C19_TimeoutFailsConnect ==
    /\ [](ConnectReports(FALSE) /\ ~ConnectResult(FALSE))
    /\ [][\A c \in ConnIds: ConnectFails(c) =>
            /\ isConnected' = isConnected
            /\ connection' = connection
            /\ \A d \in ConnIds: conns[d].sock = "free" => conns'[d].sock = "free"
            /\ sendLog' = sendLog
            /\ conns[c].origin = "fetch" => fetchPc' = "listening"
            /\ conns[c].origin = "send" => ~isReconnecting']_vars
    /\ [][\A c \in ConnIds: LateOpen(c) =>
            /\ isConnected' = isConnected
            /\ connection' = connection
            /\ sendLog' = sendLog]_vars

\* the connect() of fetch failed, the Open event of its connection arrived
\* afterwards, and the link, which nothing has closed or disconnected, is not
\* connected
C19_Witness ==
    /\ wsOpen
    /\ episode = "none"
    /\ fetchPc = "listening"
    /\ ~isConnected
    /\ \E c \in ConnIds: conns[c].sock = "open" /\ conns[c].resolved

\* C20: a failure of the model stream is caught where the response is produced:
\* no transcript callback that is reading its stream ends with its promise
\* rejected, which nothing awaits and nothing catches
C20_StreamFailureHandled ==
    [][\A h \in 1..Len(handlers):
          handlers[h].pc = "reading" => handlers'[h].pc # "failed"]_vars

\* the transcript callbacks whose response is still producing sentences
Streaming == {h \in 1..Len(handlers): handlers[h].pc \in {"reading", "awaitQueue"}}

\* C21 as stated: the inference for a final transcript starts only when no
\* earlier response is still producing sentences
C21_LaterTranscriptWaits ==
    [][StartsHandler => Streaming = {}]_vars

\* C21: a final transcript that arrives while earlier responses are streaming
\* cancels nothing and starts its own inference in the same step: the earlier
\* callbacks stay where they were, the units and the queue are untouched, and
\* the new callback is reading its stream next to them
C21_LaterTranscriptOverlaps ==
    [][StartsHandler =>
          /\ Len(handlers') = Len(handlers) + 1
          /\ SubSeq(handlers', 1, Len(handlers)) = handlers
          /\ handlers'[Len(handlers')].pc = "reading"
          /\ units' = units
          /\ queue' = queue]_vars

\* a second response started while the first was streaming, and the first
\* pushed a sentence afterwards
C21_Witness ==
    /\ Len(handlers) = 2
    /\ \E i \in 1..Len(msgHistory): \E j \in 1..Len(msgHistory):
          /\ i < j
          /\ msgHistory[i] = UserTurn(handlers[2].transcript)
          /\ msgHistory[j].role = "assistant"
          /\ units[msgHistory[j].content].h = 1

\* C22 as stated: once the stream has completed, the emitted units joined in
\* emission order are the input fragments joined, character for character
C22_ExactRoundTrip ==
    sentenceBuffer.done => Concat(sentenceBuffer.emitted) = sentenceBuffer.fed

\* C22: the emitted units and the residual, joined in order, are at every
\* moment the input fed so far with some white space left out and nothing
\* else: no other character is lost, duplicated or moved, every unit is a
\* trimmed, non-empty text, and once the stream has completed nothing is left
\* in the residual
C22_RoundTripUpToWhiteSpace ==
    LET out == Concat(sentenceBuffer.emitted) \o sentenceBuffer.residual
    IN /\ Squeeze(out) = Squeeze(sentenceBuffer.fed)
       /\ Len(out) <= Len(sentenceBuffer.fed)
       /\ \A i \in 1..Len(sentenceBuffer.emitted):
             /\ sentenceBuffer.emitted[i] # <<>>
             /\ Trim(sentenceBuffer.emitted[i]) = sentenceBuffer.emitted[i]
       /\ sentenceBuffer.done => sentenceBuffer.residual = <<>>

\* a stream completed whose last unit came from the flush and that lost a
\* white space between two units
C22_Witness ==
    /\ sentenceBuffer.done
    /\ Len(sentenceBuffer.emitted) = 2
    /\ sentenceBuffer.emitted[2][Len(sentenceBuffer.emitted[2])] \notin Terminators
    /\ Len(Concat(sentenceBuffer.emitted)) < Len(sentenceBuffer.fed)

\* the connections a connect() call is still opening
InFlight == {c \in ConnIds: conns[c].sock = "connecting" /\ ~conns[c].resolved}

\* the connections that are open or being opened
Live == InFlight \cup {c \in ConnIds: conns[c].sock = "open"}

\* C23: the link has at most one connection that is open or being opened, no
\* two connect() calls are under way at once, and the stored handle is never
\* replaced while the connection it holds is open
C23_OneLiveConnection ==
    /\ [](Cardinality(Live) <= 1)
    /\ [][(connection # NoConn /\ conns[connection].sock = "open")
            => connection' \in {connection, NoConn}]_vars

\* an Open or Close event of connection c is handled in this step
OpenOrCloseEvent(c) ==
    /\ conns[c].sock \in {"connecting", "open"}
    /\ conns'[c].sock \in {"open", "closed"}
    /\ conns'[c].sock # conns[c].sock

\* C24: while isConnected is true the stored handle is a connection, open and
\* opened by a connect() that succeeded, and an Open or Close event of a
\* connection that is not the stored one leaves isConnected as it was
C24_ConnectedMeansHandleOpen ==
    /\ [](isConnected =>
            /\ connection # NoConn
            /\ conns[connection].sock = "open"
            /\ conns[connection].resolved)
    /\ [][\A c \in ConnIds:
            (OpenOrCloseEvent(c) /\ connection # c) => isConnected' = isConnected]_vars

\* the positions of the history
Turns == 1..Len(msgHistory)

\* the Turn at position i is an assistant Turn of the response of handler h
AssistantOf(i, h) ==
    /\ msgHistory[i].role = "assistant"
    /\ units[msgHistory[i].content].h = h

\* the Turn at position i is the user Turn of the transcript of handler h
UserOf(i, h) == msgHistory[i] = UserTurn(handlers[h].transcript)

C26_HistoryStartsWithUser ==
    msgHistory # <<>> => msgHistory[1].role = "user"

\* connection c is being opened by a connect() that sendAudio called and that
\* has not returned
SendReconnect(c) == conns[c].origin = "send"

\* C27: isReconnecting is true only while a connect() called by sendAudio is
\* under way; every such connect() returns (Open event, Error event or the 5 s
\* timer), and the step in which it returns leaves the flag false unless the
\* retried sendAudio starts a reconnect of its own in that step; with the flag
\* false a sendAudio on a link that is not established starts a reconnect
C27_ReconnectingFlagResets ==
    /\ \A c \in ConnIds: SendReconnect(c) ~> ~SendReconnect(c)
    /\ [](isReconnecting => \E c \in ConnIds: SendReconnect(c))
    /\ [][\A c \in ConnIds:
            (SendReconnect(c) /\ ~SendReconnect(c)' /\ isReconnecting')
                => \E d \in ConnIds: ~SendReconnect(d) /\ SendReconnect(d)']_vars
    /\ []((~isReconnecting /\ NotEstablished(Link) /\ onTranscriptCallback)
            => SendReconnects(Link))

\* a reconnect started by sendAudio failed and the flag is false again, on a
\* link that is still not established
C27_Witness ==
    /\ ~isReconnecting
    /\ NotEstablished(Link)
    /\ \E e \in sendLog: e.reconnect
    /\ \A c \in ConnIds: ~SendReconnect(c)
    /\ wsOpen

\* the calls of onErrorCallback that an event of connection c leads to. event
\* is "Error" (an Error event of the connection) or "timeout" (the 5 s timer):
\* either rejects a promise that is not settled, and the catch block of
\* connect() then calls the callback; an Error event also runs the second
\* Error handler, which calls it whatever the promise's state
ErrorReports(L, c, event) ==
    LET fromCatch == IF L.conns[c].resolved THEN 0 ELSE 1
        fromHandler == IF event = "Error" THEN 1 ELSE 0
    IN fromCatch + fromHandler

\* C28: a connect() that fails, by the 5 s timer or by an Error event before
\* the connection opened, calls the error callback exactly once
C28_FailureReportedOnce ==
    \A c \in InFlight: \A event \in {"Error", "timeout"}:
        ErrorReports(Link, c, event) = 1

\* the message at position i of outbox is the text message, not interim, of
\* transcript t
FinalTextAt(i, t) ==
    /\ outbox[i].type = "text"
    /\ outbox[i].prefix = ""
    /\ outbox[i].ref = t
    /\ ~outbox[i].interim

\* C29: every audio or '[TTS Error]' message in outbox comes after the text
\* message, interim: false, of the final transcript whose response its unit
\* belongs to
C29_TranscriptTextFirst ==
    \A u \in Units: \A j \in UnitPositions(u):
        \E i \in 1..(j - 1): FinalTextAt(i, handlers[units[u].h].transcript)

\* the second of two responses has a message of one of its units in outbox,
\* after the text messages of both transcripts
C29_Witness ==
    \E u \in Units:
        /\ units[u].h = 2
        /\ UnitPositions(u) # {}
        /\ \E i \in 1..Len(outbox): FinalTextAt(i, handlers[1].transcript)

\* C30: an audio message carries the audio of the synthesize call made for its
\* own sentence, a task only ever captures the result of its own call, and the
\* two callback slots of DeepgramTTS hold the captures of the running task
\* while one runs, which saved connect()'s callbacks, and connect()'s
\* callbacks again when none runs
C30_AudioPairedWithItsSentence ==
    /\ \A i \in 1..Len(outbox):
          outbox[i].type = "audio" => outbox[i].audio = outbox[i].ref
    /\ \A u \in Units: units[u].audioResult \in {0, u}
    /\ \A u \in Running(units):
          /\ ttsAudioCb = u
          /\ ttsErrorCb = u
          /\ units[u].originalCallback = 0
          /\ units[u].originalErrorCallback = 0
    /\ Running(units) = {} => (ttsAudioCb = 0 /\ ttsErrorCb = 0)

\* two units, the second submitted while the task of the first was running,
\* both got their audio message, and no task is running
C30_Witness ==
    /\ Running(units) = {}
    /\ Len(units) = 2
    /\ units[2].waited
    /\ \E i \in 1..Len(outbox), j \in 1..Len(outbox):
          /\ outbox[i] = AudioMsg(1, 1)
          /\ outbox[j] = AudioMsg(2, 2)

====
